---- MODULE Spec2Model ----
(***************************************************************************)
(* vanilla-pipe (macOS): the broker process of src/pipe/macos/main.c.      *)
(* main() is modelled as a sequential process whose position is pc; the    *)
(* only asynchronous event is the delivery of SIGINT/SIGTERM, which runs   *)
(* signal_handler between any two steps of main.                           *)
(***************************************************************************)
EXTENDS Integers, Sequences, FiniteSets, TLC

(* ------------------------------ bounds --------------------------------- *)

\* longest argument list (argv without argv[0]) the model starts from
MaxArgs == 2

\* sizeof(vanilla_pipe_command_t), the receive buffer and the size of a
\* STATUS frame, in bytes; scaled down (at least control code + 4 status bytes)
SizeofCmd == 6

\* most signals (SIGINT or SIGTERM) delivered in one run
MaxSignals == 2

\* the frontends that may send datagrams
Peers == {"peerA", "peerB"}

\* the command-line words the model tries
ArgWords == {"-udp", "-local", "-h", "en0"}

(* ------------------- protocol constants (../def.h) --------------------- *)

VANILLA_PIPE_CC_SYNC == 1
VANILLA_PIPE_CC_CONNECT == 2
VANILLA_PIPE_CC_STATUS == 3
VANILLA_PIPE_CC_UNBIND == 4
VANILLA_PIPE_CC_QUIT == 5
VANILLA_PIPE_CC_BIND_ACK == 6

VANILLA_SUCCESS == 0
VANILLA_ERR_GENERIC == -1

\* first bytes of the datagrams the frontends send: the six defined codes,
\* and 0 and 255 as codes that are not defined
ControlCodeInputs ==
    { VANILLA_PIPE_CC_SYNC, VANILLA_PIPE_CC_CONNECT, VANILLA_PIPE_CC_STATUS,
      VANILLA_PIPE_CC_UNBIND, VANILLA_PIPE_CC_QUIT, VANILLA_PIPE_CC_BIND_ACK,
      0, 255 }

(* ------------------------------ helpers -------------------------------- *)

\* htonl(x) as it lies in memory: the four bytes of the 32-bit two's
\* complement value x, most significant first, whatever the host's byte
\* order (\div rounds down, as an arithmetic shift right does)
htonl(x) ==
    << (x \div 16777216) % 256, (x \div 65536) % 256, (x \div 256) % 256, x % 256 >>

\* all sequences over S of length at most n
RECURSIVE SeqsUpTo(_, _)
SeqsUpTo(S, n) ==
    IF n = 0 THEN { << >> }
    ELSE LET shorter == SeqsUpTo(S, n - 1)
         IN  shorter \cup { Append(s, x) : s \in { t \in shorter : Len(t) = n - 1 }, x \in S }

\* the argument loop of main: the flags after looking at args[i..]; "-h"
\* returns at once, a later flag is then never read
RECURSIVE ParseArgs(_, _, _)
ParseArgs(args, i, st) ==
    IF i > Len(args) THEN st
    ELSE IF args[i] = "-udp" THEN ParseArgs(args, i + 1, [st EXCEPT !.udp_mode = 1])
    ELSE IF args[i] = "-local" THEN ParseArgs(args, i + 1, [st EXCEPT !.local_mode = 1])
    ELSE IF args[i] = "-h" THEN [st EXCEPT !.help = TRUE]
    ELSE ParseArgs(args, i + 1, [st EXCEPT !.wireless_interface = args[i]])

(* ------------------------------- state --------------------------------- *)

VARIABLES
    pc,                 \* position of main
    argv,               \* argv[1..argc-1]
    running,            \* static volatile int running
    handlers_installed, \* signal(SIGINT/SIGTERM, signal_handler) has run
    handler_log,        \* number of lines signal_handler printed (capped)
    udp_mode, local_mode, wireless_interface,
    wifi_state,         \* "uninit", "inited", "cleaned"
    cleanup_calls,      \* calls of wifi_cleanup
    ready_written,      \* times "READY\n" was written to stderr
    server_socket,      \* "none", "open", "invalid" (socket() gave -1), "closed"
    socket_domain,      \* first argument of the socket() call; "none" before it
    bound,              \* bind() succeeded
    recv_len,           \* result of the last recvfrom
    control_code,       \* cmd.control_code of the last received datagram
    client_addr,        \* sender of the last received datagram
    result,             \* result of wifi_scan_for_wiiu in the SYNC case
    sent,               \* sendto calls of the current loop iteration
    wifi_calls,         \* Wi-Fi capability calls of the current loop iteration
    quit_seen,          \* the QUIT case has run
    recvs_since_signal, \* recvfrom calls that returned after signal_handler first ran
    teardown,           \* order of the shutdown steps taken
    exit_code           \* value returned by main; -1 while it has not returned

vars == << pc, argv, running, handlers_installed, handler_log, udp_mode,
           local_mode, wireless_interface, wifi_state, cleanup_calls,
           ready_written, server_socket, bound, recv_len, control_code,
           client_addr, result, sent, wifi_calls, quit_seen, teardown,
           exit_code, socket_domain, recvs_since_signal >>

\* what main keeps from one loop iteration to the next, besides running
broker_state == << udp_mode, local_mode, wireless_interface, wifi_state,
                   cleanup_calls, ready_written, server_socket, bound,
                   handlers_installed >>

\* main declares no session variable: no statement of the loop records that
\* a SYNC, CONNECT or UNBIND was handled, so the session is Idle throughout
session_state == "Idle"

Init ==
    /\ pc = "args"
    /\ argv \in SeqsUpTo(ArgWords, MaxArgs)
    /\ running = 1
    /\ handlers_installed = FALSE
    /\ handler_log = 0
    /\ udp_mode = 0
    /\ local_mode = 0
    /\ wireless_interface = "NULL"
    /\ wifi_state = "uninit"
    /\ cleanup_calls = 0
    /\ ready_written = 0
    /\ server_socket = "none"
    /\ bound = FALSE
    /\ recv_len = 0
    /\ control_code = 0
    /\ client_addr = "none"
    /\ result = 0
    /\ sent = << >>
    /\ wifi_calls = << >>
    /\ quit_seen = FALSE
    /\ teardown = << >>
    /\ exit_code = -1
    /\ socket_domain = "none"
    /\ recvs_since_signal = 0

(* ------------------------------ startup -------------------------------- *)

\* return from main
Return(code) ==
    /\ pc' = "exit"
    /\ exit_code' = code

\* lines 60-85: usage check, argument loop, transport selection
CheckArgs ==
    /\ pc = "args"
    /\ LET st == ParseArgs(argv, 1, [udp_mode |-> 0, local_mode |-> 0,
                                     wireless_interface |-> "NULL", help |-> FALSE])
       IN  IF Len(argv) + 1 < 2
           THEN /\ Return(1)
                /\ UNCHANGED << udp_mode, local_mode, wireless_interface >>
           ELSE /\ udp_mode' = st.udp_mode
                /\ local_mode' = st.local_mode
                /\ wireless_interface' = st.wireless_interface
                /\ IF st.help THEN Return(0)
                   ELSE IF st.udp_mode = st.local_mode THEN Return(1)
                   ELSE pc' = "signal" /\ UNCHANGED exit_code
    /\ UNCHANGED << socket_domain, recvs_since_signal, argv, running, handlers_installed, handler_log, wifi_state,
                    cleanup_calls, ready_written, server_socket, bound,
                    recv_len, control_code, client_addr, result, sent,
                    wifi_calls, quit_seen, teardown >>

\* lines 88-89
InstallHandlers ==
    /\ pc = "signal"
    /\ handlers_installed' = TRUE
    /\ pc' = "wifi_init"
    /\ UNCHANGED << socket_domain, recvs_since_signal, argv, running, handler_log, udp_mode, local_mode,
                    wireless_interface, wifi_state, cleanup_calls,
                    ready_written, server_socket, bound, recv_len,
                    control_code, client_addr, result, sent, wifi_calls,
                    quit_seen, teardown, exit_code >>

\* wifi.h: int wifi_init(const char *): 0 on success, anything else on failure
wifi_init_results == {0, -1}

\* WifiInit that reports the failure and goes on
WifiInitIgnoresFailure ==
    /\ pc = "wifi_init"
    /\ \E r \in {0, -1} :
         wifi_state' = IF r = 0 THEN "inited" ELSE wifi_state
    /\ pc' = "ready"
    /\ UNCHANGED << socket_domain, recvs_since_signal, argv, running,
                    handlers_installed, handler_log, udp_mode, local_mode,
                    wireless_interface, cleanup_calls, ready_written,
                    server_socket, bound, recv_len, control_code, client_addr,
                    result, sent, wifi_calls, quit_seen, teardown, exit_code >>

\* lines 92-96
WifiInit ==
    /\ pc = "wifi_init"
    /\ \E r \in wifi_init_results :
         IF r # 0
         THEN /\ Return(1)
              /\ UNCHANGED wifi_state
         ELSE /\ wifi_state' = "inited"
              /\ pc' = "ready"
              /\ UNCHANGED exit_code
    /\ UNCHANGED << socket_domain, recvs_since_signal, argv, running, handlers_installed, handler_log, udp_mode,
                    local_mode, wireless_interface, cleanup_calls,
                    ready_written, server_socket, bound, recv_len,
                    control_code, client_addr, result, sent, wifi_calls,
                    quit_seen, teardown >>

\* lines 99-102
WriteReady ==
    /\ pc = "ready"
    /\ ready_written' = ready_written + 1
    /\ pc' = "socket"
    /\ UNCHANGED << socket_domain, recvs_since_signal, argv, running, handlers_installed, handler_log, udp_mode,
                    local_mode, wireless_interface, wifi_state, cleanup_calls,
                    server_socket, bound, recv_len, control_code, client_addr,
                    result, sent, wifi_calls, quit_seen, teardown, exit_code >>

\* CreateSocket taking the UDP branch whatever the mode
CreateSocketAlwaysInet ==
    /\ pc = "socket"
    /\ socket_domain' = "AF_INET"
    /\ server_socket' \in {"open", "invalid"}
    /\ pc' = "bind"
    /\ UNCHANGED << recvs_since_signal, argv, running, handlers_installed,
                    handler_log, udp_mode, local_mode, wireless_interface,
                    wifi_state, cleanup_calls, ready_written, bound, recv_len,
                    control_code, client_addr, result, sent, wifi_calls,
                    quit_seen, teardown, exit_code >>

\* lines 107 / 121: socket() gives a descriptor or -1
CreateSocket ==
    /\ pc = "socket"
    /\ socket_domain' = IF local_mode # 0 THEN "AF_UNIX" ELSE "AF_INET"
    /\ server_socket' \in {"open", "invalid"}
    /\ pc' = "bind"
    /\ UNCHANGED << recvs_since_signal, argv, running, handlers_installed, handler_log, udp_mode,
                    local_mode, wireless_interface, wifi_state, cleanup_calls,
                    ready_written, bound, recv_len, control_code, client_addr,
                    result, sent, wifi_calls, quit_seen, teardown, exit_code >>

\* BindFailed returning at once, like the wifi_init failure above it
BindFailedNoCleanup ==
    /\ Return(1)
    /\ UNCHANGED << wifi_state, cleanup_calls, teardown, server_socket, bound >>

\* lines 116-118 / 129-131: what main does when bind() fails
BindFailed ==
    /\ wifi_state' = "cleaned"
    /\ cleanup_calls' = cleanup_calls + 1
    /\ Return(1)
    /\ teardown' = Append(teardown, "wifi_cleanup")
    /\ UNCHANGED << server_socket, bound >>

\* lines 108-119 / 122-132: bind() fails on an invalid descriptor and may
\* fail on a valid one (path or port not available)
Bind ==
    /\ pc = "bind"
    /\ \E ok \in (IF server_socket = "open" THEN BOOLEAN ELSE {FALSE}) :
         IF ok
         THEN /\ bound' = TRUE
              /\ pc' = "setsockopt"
              /\ UNCHANGED << wifi_state, cleanup_calls, server_socket,
                              teardown, exit_code >>
         ELSE BindFailed
    /\ UNCHANGED << socket_domain, recvs_since_signal, argv, running, handlers_installed, handler_log, udp_mode,
                    local_mode, wireless_interface, ready_written, recv_len,
                    control_code, client_addr, result, sent, wifi_calls,
                    quit_seen >>

\* lines 136-139
SetTimeout ==
    /\ pc = "setsockopt"
    /\ pc' = "loop"
    /\ UNCHANGED << socket_domain, recvs_since_signal, argv, running, handlers_installed, handler_log, udp_mode,
                    local_mode, wireless_interface, wifi_state, cleanup_calls,
                    ready_written, server_socket, bound, recv_len,
                    control_code, client_addr, result, sent, wifi_calls,
                    quit_seen, teardown, exit_code >>

(* ----------------------------- event loop ------------------------------ *)

\* line 142: while (running)
LoopCheck ==
    /\ pc = "loop"
    /\ IF running # 0
       THEN pc' = "recv" /\ UNCHANGED teardown
       ELSE pc' = "close" /\ teardown' = Append(teardown, "loop_exit")
    /\ UNCHANGED << socket_domain, recvs_since_signal, argv, running, handlers_installed, handler_log, udp_mode,
                    local_mode, wireless_interface, wifi_state, cleanup_calls,
                    ready_written, server_socket, bound, recv_len,
                    control_code, client_addr, result, sent, wifi_calls,
                    quit_seen, exit_code >>

\* RecvFailed testing for errors only
RecvFailedOnErrorOnly(n) == n < 0

\* what recvfrom may return: -1 (timeout or error), 0, and datagram lengths
\* from one byte up to the buffer size (the shortest, the longest truncated
\* one, and a full frame; the code tells no other lengths apart)
RecvLens == { -1, 0, 1, SizeofCmd - 1, SizeofCmd }

\* line 151: if (recv_len <= 0) continue;
RecvFailed(n) == n <= 0

\* lines 143-154: recvfrom gives one of RecvLens, a longer datagram being
\* cut to the buffer; a datagram of one byte or more fills
\* cmd.control_code and client_addr. A new iteration starts here, so the
\* per-iteration records sent and wifi_calls start empty.
Recv ==
    /\ pc = "recv"
    /\ sent' = << >>
    /\ wifi_calls' = << >>
    /\ \E n \in RecvLens :
         /\ recv_len' = n
         /\ IF n > 0
            THEN \E c \in ControlCodeInputs, p \in Peers :
                   /\ control_code' = c
                   /\ client_addr' = p
            ELSE UNCHANGED << control_code, client_addr >>
         /\ pc' = IF RecvFailed(n) THEN "loop" ELSE "dispatch"
    /\ recvs_since_signal' =
         IF handler_log > 0 /\ recvs_since_signal < 2
         THEN recvs_since_signal + 1 ELSE recvs_since_signal
    /\ UNCHANGED << socket_domain, argv, running, handlers_installed, handler_log, udp_mode,
                    local_mode, wireless_interface, wifi_state, cleanup_calls,
                    ready_written, server_socket, bound, result, quit_seen,
                    teardown, exit_code >>

\* SwitchCase with a case for STATUS that shares the SYNC body
SwitchCaseStatusAsSync(cc) ==
    IF cc = VANILLA_PIPE_CC_SYNC \/ cc = VANILLA_PIPE_CC_STATUS THEN "sync"
    ELSE IF cc = VANILLA_PIPE_CC_CONNECT THEN "connect"
    ELSE IF cc = VANILLA_PIPE_CC_UNBIND THEN "unbind"
    ELSE IF cc = VANILLA_PIPE_CC_QUIT THEN "quit"
    ELSE "default"

\* lines 158-205: the case of the switch a control code selects
SwitchCase(cc) ==
    IF cc = VANILLA_PIPE_CC_SYNC THEN "sync"
    ELSE IF cc = VANILLA_PIPE_CC_CONNECT THEN "connect"
    ELSE IF cc = VANILLA_PIPE_CC_UNBIND THEN "unbind"
    ELSE IF cc = VANILLA_PIPE_CC_QUIT THEN "quit"
    ELSE "default"

\* lines 156-158
Dispatch ==
    /\ pc = "dispatch"
    /\ pc' = SwitchCase(control_code)
    /\ UNCHANGED << socket_domain, recvs_since_signal, argv, running, handlers_installed, handler_log, udp_mode,
                    local_mode, wireless_interface, wifi_state, cleanup_calls,
                    ready_written, server_socket, bound, recv_len,
                    control_code, client_addr, result, sent, wifi_calls,
                    quit_seen, teardown, exit_code >>

\* wifi.h: int wifi_scan_for_wiiu(...), int wifi_disassociate(void): 0 or not
wifi_results == {0, -1}

\* a call of a Wi-Fi capability operation and what it returned
WifiCall(op, ret) == [op |-> op, ret |-> ret]

\* a sendto call: the bytes written by the code, the length handed to sendto
\* (bytes past those written are whatever the stack held), the destination,
\* and whether the datagram went out
SendTo(bytes, len, to, ok) == [bytes |-> bytes, len |-> len, to |-> to, ok |-> ok]

\* line 162
SyncScan ==
    /\ pc = "sync"
    /\ \E r \in wifi_results :
         /\ result' = r
         /\ wifi_calls' = Append(wifi_calls, WifiCall("wifi_scan_for_wiiu", r))
    /\ pc' = "sync_send"
    /\ UNCHANGED << socket_domain, recvs_since_signal, argv, running, handlers_installed, handler_log, udp_mode,
                    local_mode, wireless_interface, wifi_state, cleanup_calls,
                    ready_written, server_socket, bound, recv_len,
                    control_code, client_addr, sent, quit_seen, teardown,
                    exit_code >>

\* StatusResponse with the two branches answering alike
StatusResponseAlwaysSuccess(res) ==
    << VANILLA_PIPE_CC_STATUS >> \o htonl(VANILLA_SUCCESS)

\* lines 164-171: the response built from the scan result
StatusResponse(res) ==
    IF res = 0
    THEN << VANILLA_PIPE_CC_STATUS >> \o htonl(VANILLA_SUCCESS)
    ELSE << VANILLA_PIPE_CC_STATUS >> \o htonl(VANILLA_ERR_GENERIC)

\* SyncRespond with the sendto repeated
SyncRespondTwice ==
    /\ pc = "sync_send"
    /\ \E ok \in BOOLEAN :
         sent' = sent \o << [bytes |-> StatusResponse(result), len |-> SizeofCmd,
                             to |-> client_addr, ok |-> ok],
                            [bytes |-> StatusResponse(result), len |-> SizeofCmd,
                             to |-> client_addr, ok |-> ok] >>
    /\ pc' = "loop"
    /\ UNCHANGED << socket_domain, recvs_since_signal, argv, running,
                    handlers_installed, handler_log, udp_mode, local_mode,
                    wireless_interface, wifi_state, cleanup_calls,
                    ready_written, server_socket, bound, recv_len,
                    control_code, client_addr, result, wifi_calls, quit_seen,
                    teardown, exit_code >>

\* lines 164-175
SyncRespond ==
    /\ pc = "sync_send"
    /\ \E ok \in BOOLEAN :
         sent' = Append(sent, SendTo(StatusResponse(result), SizeofCmd, client_addr, ok))
    /\ pc' = "loop"
    /\ UNCHANGED << socket_domain, recvs_since_signal, argv, running, handlers_installed, handler_log, udp_mode,
                    local_mode, wireless_interface, wifi_state, cleanup_calls,
                    ready_written, server_socket, bound, recv_len,
                    control_code, client_addr, result, wifi_calls, quit_seen,
                    teardown, exit_code >>

\* Connect answering a fixed address instead of client_addr
ConnectToFixedPeer ==
    /\ pc = "connect"
    /\ \E ok \in BOOLEAN :
         sent' = Append(sent, [bytes |-> << VANILLA_PIPE_CC_BIND_ACK >>, len |-> 1,
                               to |-> "peerA", ok |-> ok])
    /\ pc' = "loop"
    /\ UNCHANGED << socket_domain, recvs_since_signal, argv, running,
                    handlers_installed, handler_log, udp_mode, local_mode,
                    wireless_interface, wifi_state, cleanup_calls,
                    ready_written, server_socket, bound, recv_len,
                    control_code, client_addr, result, wifi_calls, quit_seen,
                    teardown, exit_code >>

\* Connect with the connection flow of its TODO: wifi_associate, then the ack
ConnectAssociates ==
    /\ pc = "connect"
    /\ \E r \in {0, -1} :
         wifi_calls' = Append(wifi_calls, [op |-> "wifi_associate", ret |-> r])
    /\ \E ok \in BOOLEAN :
         sent' = Append(sent, [bytes |-> << VANILLA_PIPE_CC_BIND_ACK >>, len |-> 1,
                               to |-> client_addr, ok |-> ok])
    /\ pc' = "loop"
    /\ UNCHANGED << socket_domain, recvs_since_signal, argv, running,
                    handlers_installed, handler_log, udp_mode, local_mode,
                    wireless_interface, wifi_state, cleanup_calls,
                    ready_written, server_socket, bound, recv_len,
                    control_code, client_addr, result, quit_seen, teardown,
                    exit_code >>

\* Connect without its sendto
ConnectSilent ==
    /\ pc = "connect"
    /\ pc' = "loop"
    /\ UNCHANGED << socket_domain, recvs_since_signal, argv, running, handlers_installed, handler_log, udp_mode,
                    local_mode, wireless_interface, wifi_state, cleanup_calls,
                    ready_written, server_socket, bound, recv_len,
                    control_code, client_addr, result, sent, wifi_calls,
                    quit_seen, teardown, exit_code >>

\* lines 178-188: uint8_t ack = VANILLA_PIPE_CC_BIND_ACK; sendto(&ack, 1)
Connect ==
    /\ pc = "connect"
    /\ \E ok \in BOOLEAN :
         sent' = Append(sent, SendTo(<< VANILLA_PIPE_CC_BIND_ACK >>, 1, client_addr, ok))
    /\ pc' = "loop"
    /\ UNCHANGED << socket_domain, recvs_since_signal, argv, running, handlers_installed, handler_log, udp_mode,
                    local_mode, wireless_interface, wifi_state, cleanup_calls,
                    ready_written, server_socket, bound, recv_len,
                    control_code, client_addr, result, wifi_calls, quit_seen,
                    teardown, exit_code >>

\* Unbind answering like the CONNECT case above it
UnbindAcks ==
    /\ pc = "unbind"
    /\ \E r \in {0, -1} :
         wifi_calls' = Append(wifi_calls, [op |-> "wifi_disassociate", ret |-> r])
    /\ sent' = Append(sent, [bytes |-> << VANILLA_PIPE_CC_BIND_ACK >>, len |-> 1,
                              to |-> client_addr, ok |-> TRUE])
    /\ pc' = "loop"
    /\ UNCHANGED << socket_domain, recvs_since_signal, argv, running, handlers_installed, handler_log, udp_mode,
                    local_mode, wireless_interface, wifi_state, cleanup_calls,
                    ready_written, server_socket, bound, recv_len,
                    control_code, client_addr, result, quit_seen,
                    teardown, exit_code >>

\* lines 190-194: the value wifi_disassociate returns is dropped
Unbind ==
    /\ pc = "unbind"
    /\ \E r \in wifi_results :
         wifi_calls' = Append(wifi_calls, WifiCall("wifi_disassociate", r))
    /\ pc' = "loop"
    /\ UNCHANGED << socket_domain, recvs_since_signal, argv, running, handlers_installed, handler_log, udp_mode,
                    local_mode, wireless_interface, wifi_state, cleanup_calls,
                    ready_written, server_socket, bound, recv_len,
                    control_code, client_addr, result, sent, quit_seen,
                    teardown, exit_code >>

\* Quit that only logs
QuitKeepsRunning ==
    /\ pc = "quit"
    /\ quit_seen' = TRUE
    /\ pc' = "loop"
    /\ UNCHANGED << socket_domain, recvs_since_signal, argv, running, handlers_installed, handler_log, udp_mode,
                    local_mode, wireless_interface, wifi_state, cleanup_calls,
                    ready_written, server_socket, bound, recv_len,
                    control_code, client_addr, result, sent, wifi_calls,
                    teardown, exit_code >>

\* lines 196-200
Quit ==
    /\ pc = "quit"
    /\ running' = 0
    /\ quit_seen' = TRUE
    /\ pc' = "loop"
    /\ UNCHANGED << socket_domain, recvs_since_signal, argv, handlers_installed, handler_log, udp_mode,
                    local_mode, wireless_interface, wifi_state, cleanup_calls,
                    ready_written, server_socket, bound, recv_len,
                    control_code, client_addr, result, sent, wifi_calls,
                    teardown, exit_code >>

\* lines 202-204
UnknownCommand ==
    /\ pc = "default"
    /\ pc' = "loop"
    /\ UNCHANGED << socket_domain, recvs_since_signal, argv, running, handlers_installed, handler_log, udp_mode,
                    local_mode, wireless_interface, wifi_state, cleanup_calls,
                    ready_written, server_socket, bound, recv_len,
                    control_code, client_addr, result, sent, wifi_calls,
                    quit_seen, teardown, exit_code >>

(* ------------------------------ shutdown ------------------------------- *)

\* cleanup in the other order: wifi_cleanup() at line 209, close() at 210
CloseSocketSwapped ==
    /\ pc = "close"
    /\ wifi_state' = "cleaned"
    /\ cleanup_calls' = cleanup_calls + 1
    /\ teardown' = Append(teardown, "wifi_cleanup")
    /\ pc' = "shutdown"
    /\ UNCHANGED << socket_domain, recvs_since_signal, argv, running, handlers_installed, handler_log, udp_mode,
                    local_mode, wireless_interface, ready_written,
                    server_socket, bound, recv_len, control_code, client_addr,
                    result, sent, wifi_calls, quit_seen, exit_code >>

\* line 209
CloseSocket ==
    /\ pc = "close"
    /\ server_socket' = "closed"
    /\ teardown' = Append(teardown, "close")
    /\ pc' = "cleanup"
    /\ UNCHANGED << socket_domain, recvs_since_signal, argv, running, handlers_installed, handler_log, udp_mode,
                    local_mode, wireless_interface, wifi_state, cleanup_calls,
                    ready_written, bound, recv_len, control_code, client_addr,
                    result, sent, wifi_calls, quit_seen, exit_code >>

\* line 210
WifiCleanup ==
    /\ pc = "cleanup"
    /\ wifi_state' = "cleaned"
    /\ cleanup_calls' = cleanup_calls + 1
    /\ teardown' = Append(teardown, "wifi_cleanup")
    /\ pc' = "shutdown"
    /\ UNCHANGED << socket_domain, recvs_since_signal, argv, running, handlers_installed, handler_log, udp_mode,
                    local_mode, wireless_interface, ready_written,
                    server_socket, bound, recv_len, control_code, client_addr,
                    result, sent, wifi_calls, quit_seen, exit_code >>

\* lines 212-213
Shutdown ==
    /\ pc = "shutdown"
    /\ Return(0)
    /\ UNCHANGED << socket_domain, recvs_since_signal, argv, running, handlers_installed, handler_log, udp_mode,
                    local_mode, wireless_interface, wifi_state, cleanup_calls,
                    ready_written, server_socket, bound, recv_len,
                    control_code, client_addr, result, sent, wifi_calls,
                    quit_seen, teardown >>

(* ------------------------------- signals ------------------------------- *)

\* signal_handler that logs and forgets the flag
signal_handler_LogOnly ==
    /\ handlers_installed
    /\ pc \notin {"exit", "killed"}
    /\ handler_log < MaxSignals
    /\ handler_log' = handler_log + 1
    /\ UNCHANGED << socket_domain, recvs_since_signal, pc, argv, running,
                    handlers_installed, udp_mode, local_mode,
                    wireless_interface, wifi_state, cleanup_calls,
                    ready_written, server_socket, bound, recv_len,
                    control_code, client_addr, result, sent, wifi_calls,
                    quit_seen, teardown, exit_code >>

\* lines 29-32, run between any two steps of main once installed
signal_handler ==
    /\ handlers_installed
    /\ pc \notin {"exit", "killed"}
    /\ handler_log < MaxSignals
    /\ handler_log' = handler_log + 1
    /\ running' = 0
    /\ UNCHANGED << socket_domain, recvs_since_signal, pc, argv, handlers_installed, udp_mode, local_mode,
                    wireless_interface, wifi_state, cleanup_calls,
                    ready_written, server_socket, bound, recv_len,
                    control_code, client_addr, result, sent, wifi_calls,
                    quit_seen, teardown, exit_code >>

\* SIGINT or SIGTERM before line 88: the default disposition ends the process
DefaultSignal ==
    /\ ~handlers_installed
    /\ pc \notin {"exit", "killed"}
    /\ pc' = "killed"
    /\ UNCHANGED << socket_domain, recvs_since_signal, argv, running, handlers_installed, handler_log, udp_mode,
                    local_mode, wireless_interface, wifi_state, cleanup_calls,
                    ready_written, server_socket, bound, recv_len,
                    control_code, client_addr, result, sent, wifi_calls,
                    quit_seen, teardown, exit_code >>

(* --------------------------- specifications ---------------------------- *)

\* the steps of main
Main ==
    \/ CheckArgs
    \/ InstallHandlers
    \/ WifiInit
    \/ WriteReady
    \/ CreateSocket
    \/ Bind
    \/ SetTimeout
    \/ LoopCheck
    \/ Recv
    \/ Dispatch
    \/ SyncScan
    \/ SyncRespond
    \/ Connect
    \/ Unbind
    \/ Quit
    \/ UnknownCommand
    \/ CloseSocket
    \/ WifiCleanup
    \/ Shutdown

Next ==
    \/ Main
    \/ signal_handler
    \/ DefaultSignal

Spec == Init /\ [][Next]_vars

\* main is a running sequential program: a step of it that can be taken is
\* taken (recvfrom returns within SO_RCVTIMEO, the Wi-Fi calls return)
FairSpec == Spec /\ WF_vars(Main)

(* ------------------------- properties: helpers ------------------------- *)

\* the control codes the switch has a case for
Commands == { VANILLA_PIPE_CC_SYNC, VANILLA_PIPE_CC_CONNECT,
              VANILLA_PIPE_CC_UNBIND, VANILLA_PIPE_CC_QUIT }

\* positions inside the cases of the switch
CasePcs == { "sync", "sync_send", "connect", "unbind", "quit" }

\* the iteration that received a datagram with control code cc has ended
Handled(cc) == pc = "loop" /\ recv_len > 0 /\ control_code = cc

\* the same, for a datagram that filled the whole frame
HandledFull(cc) == Handled(cc) /\ recv_len = SizeofCmd

\* the full shutdown sequence
FullTeardown == << "loop_exit", "close", "wifi_cleanup" >>

(* --------------------------------- C1 ---------------------------------- *)

C1_Inv ==
    /\ pc = "sync" => (wifi_calls = << >> /\ sent = << >>)
    /\ pc = "sync_send" => (Len(wifi_calls) = 1 /\ sent = << >>)
    /\ Handled(VANILLA_PIPE_CC_SYNC) =>
         /\ Len(wifi_calls) = 1
         /\ wifi_calls[1].op = "wifi_scan_for_wiiu"
         /\ Len(sent) = 1
         /\ sent[1].to = client_addr
         /\ sent[1].len = SizeofCmd
         /\ sent[1].bytes[1] = VANILLA_PIPE_CC_STATUS
         /\ SubSeq(sent[1].bytes, 2, 5) =
              IF wifi_calls[1].ret = 0 THEN htonl(VANILLA_SUCCESS)
              ELSE htonl(VANILLA_ERR_GENERIC)
         /\ htonl(VANILLA_SUCCESS) # htonl(VANILLA_ERR_GENERIC)

C1_Step ==
    (pc \in {"sync", "sync_send"} /\ pc' # pc) =>
        /\ running' = running
        /\ broker_state' = broker_state
        /\ session_state' = session_state

\* C1: every received SYNC frame causes exactly one call of the Wi-Fi scan
\* and exactly one STATUS frame to the sender, with the success code if and
\* only if the scan returned 0 and the generic-error code otherwise; the
\* SYNC case changes neither the shutdown flag nor anything else the broker
\* keeps between iterations.
C1_SyncAnswered == [](C1_Inv) /\ [][C1_Step]_vars

C1_Witness ==
    /\ Handled(VANILLA_PIPE_CC_SYNC)
    /\ running = 1
    /\ wifi_calls = << WifiCall("wifi_scan_for_wiiu", 0) >>
    /\ Len(sent) = 1
    /\ sent[1].bytes = << VANILLA_PIPE_CC_STATUS, 0, 0, 0, 0 >>

(* --------------------------------- C2 ---------------------------------- *)

\* C2: every received CONNECT frame moves the session state to Connecting
\* and sends exactly one BIND_ACK frame to the sender.
C2_ConnectEntersConnecting ==
    HandledFull(VANILLA_PIPE_CC_CONNECT) =>
        /\ session_state = "Connecting"
        /\ Len(sent) = 1
        /\ sent[1].bytes = << VANILLA_PIPE_CC_BIND_ACK >>
        /\ sent[1].to = client_addr

(* --------------------------------- C3 ---------------------------------- *)

\* C3: every received UNBIND frame causes exactly one call of the Wi-Fi
\* disassociate operation, leaves the session Idle and sends no response,
\* whatever the disassociate operation returned.
C3_UnbindDisassociates ==
    /\ pc = "unbind" => (wifi_calls = << >> /\ sent = << >>)
    /\ Handled(VANILLA_PIPE_CC_UNBIND) =>
         /\ Len(wifi_calls) = 1
         /\ wifi_calls[1].op = "wifi_disassociate"
         /\ sent = << >>
         /\ session_state = "Idle"

C3_Witness ==
    /\ Handled(VANILLA_PIPE_CC_UNBIND)
    /\ wifi_calls = << WifiCall("wifi_disassociate", -1) >>
    /\ running = 1

(* --------------------------------- C4 ---------------------------------- *)

C4_Inv ==
    /\ quit_seen =>
         /\ running = 0
         /\ pc \in {"loop", "close", "cleanup", "shutdown", "exit"}
         /\ sent = << >>
         /\ wifi_calls = << >>
         /\ control_code = VANILLA_PIPE_CC_QUIT
    /\ (quit_seen /\ pc = "exit") =>
         /\ exit_code = 0
         /\ server_socket = "closed"
         /\ wifi_state = "cleaned"
         /\ teardown = FullTeardown

\* C4: once the QUIT case has run, no further frame is received or handled
\* and no response is sent; main then leaves the loop, closes the socket,
\* cleans up Wi-Fi and returns 0.
C4_QuitShutsDown == [](C4_Inv) /\ (quit_seen ~> pc = "exit")

C4_Witness ==
    /\ quit_seen
    /\ pc = "exit"
    /\ exit_code = 0
    /\ handler_log = 0

(* --------------------------------- C5 ---------------------------------- *)

\* C5: a received datagram shorter than the frame size is rejected: it
\* reaches no case of the switch, causes no response and no Wi-Fi call, and
\* leaves the shutdown flag alone.
C5_ShortDatagramRejected ==
    (recv_len > 0 /\ recv_len < SizeofCmd) =>
        /\ pc \notin CasePcs
        /\ sent = << >>
        /\ wifi_calls = << >>
        /\ ~quit_seen

(* --------------------------------- C6 ---------------------------------- *)

C6_Inv ==
    (recv_len > 0 /\ control_code \notin Commands) =>
        /\ pc \notin CasePcs
        /\ sent = << >>
        /\ wifi_calls = << >>
        /\ ~quit_seen

C6_Step ==
    /\ (pc = "dispatch" /\ pc' # pc /\ control_code \notin Commands) => pc' = "default"
    /\ (pc = "default" /\ pc' # pc) =>
         /\ pc' = "loop"
         /\ running' = running
         /\ broker_state' = broker_state
         /\ session_state' = session_state
    /\ (pc = "loop" /\ pc' # pc /\ running # 0) => pc' = "recv"

\* C6: a received frame whose control code is none of SYNC, CONNECT, UNBIND,
\* QUIT (255, 0, and also STATUS and BIND_ACK) goes to the default case,
\* which sends nothing, calls no Wi-Fi operation and changes neither the
\* shutdown flag nor the broker's state; the loop then receives again.
C6_UnknownCodeInert == [](C6_Inv) /\ [][C6_Step]_vars

C6_Witness ==
    /\ pc = "recv"
    /\ recv_len > 0
    /\ control_code = VANILLA_PIPE_CC_STATUS
    /\ running = 1

(* --------------------------------- C7 ---------------------------------- *)

C7_Step ==
    (pc = "recv" /\ pc' # pc /\ recv_len' <= 0) =>
        /\ pc' = "loop"
        /\ sent' = << >>
        /\ wifi_calls' = << >>
        /\ running' = running
        /\ broker_state' = broker_state
        /\ quit_seen' = quit_seen

\* C7: when recvfrom returns -1 (timeout or error) or 0, the iteration sends
\* nothing, calls no Wi-Fi operation, changes no state, and main is next at
\* the loop's test of the shutdown flag.
C7_FailedReceiveInert ==
    [][C7_Step]_vars /\ []((pc \in CasePcs \cup {"dispatch", "default"}) => recv_len > 0)

C7_Witness ==
    /\ pc = "loop"
    /\ recv_len = -1
    /\ running = 1

(* --------------------------------- C8 ---------------------------------- *)

\* C8 as stated: each received SYNC, CONNECT, UNBIND or QUIT frame is
\* answered by a response frame; each other frame is answered by none.
C8_EveryCommandAnswered ==
    /\ \A cc \in Commands : HandledFull(cc) => Len(sent) >= 1
    /\ \A cc \in ControlCodeInputs \ Commands : HandledFull(cc) => sent = << >>

C8_Inv ==
    /\ \A cc \in { VANILLA_PIPE_CC_SYNC, VANILLA_PIPE_CC_CONNECT } :
         Handled(cc) => Len(sent) = 1
    /\ \A cc \in ControlCodeInputs \ { VANILLA_PIPE_CC_SYNC, VANILLA_PIPE_CC_CONNECT } :
         Handled(cc) => sent = << >>

C8_Step ==
    (pc \in {"dispatch", "default"} /\ pc' # pc /\ control_code \notin Commands) =>
        (running' = running /\ pc' \in {"default", "loop"})

\* C8 amended: each received SYNC or CONNECT frame is answered by exactly one
\* response frame; each UNBIND or QUIT frame and each frame with no case in
\* the switch is answered by none, and handling a frame with no case does
\* not clear the running flag.
C8_OnlySyncAndConnectAnswered == [](C8_Inv) /\ [][C8_Step]_vars

C8_Witness ==
    /\ Handled(VANILLA_PIPE_CC_CONNECT)
    /\ Len(sent) = 1
    /\ sent[1].bytes = << VANILLA_PIPE_CC_BIND_ACK >>

(* --------------------------------- C9 ---------------------------------- *)

\* C9: a frame is received only while Wi-Fi is initialized and the socket is
\* bound and open (never after close or wifi_cleanup); the shutdown steps run
\* only once the flag is cleared, in the order loop exit, close,
\* wifi_cleanup, whether a signal or QUIT cleared the flag.
C9_InitBeforeTeardownAfter ==
    /\ (pc \in CasePcs \cup {"recv", "dispatch", "default"}) =>
         /\ wifi_state = "inited"
         /\ server_socket = "open"
         /\ bound
         /\ teardown = << >>
    /\ recv_len # 0 => (wifi_state # "uninit" /\ bound)
    /\ (teardown # << >> /\ bound) =>
         /\ running = 0
         /\ quit_seen \/ handler_log > 0
         /\ teardown = SubSeq(FullTeardown, 1, Len(teardown))
         /\ (server_socket = "closed") = (Len(teardown) >= 2)
         /\ (wifi_state = "cleaned") = (Len(teardown) >= 3)
    /\ (pc = "exit" /\ bound) => teardown = FullTeardown

C9_Witness ==
    /\ pc = "exit"
    /\ recv_len > 0
    /\ ~quit_seen
    /\ handler_log > 0
    /\ teardown = FullTeardown

(* --------------------------------- C10 --------------------------------- *)

\* C10: on every startup failure main returns non-zero, and when it does,
\* every resource acquired so far has been released: Wi-Fi is not left
\* initialized and the socket descriptor is not left open.
C10_StartupFailureReleases ==
    /\ (pc = "exit" /\ ~bound /\ argv # << >> /\ ~(\E i \in 1 .. Len(argv) : argv[i] = "-h"))
          => exit_code # 0
    /\ (pc = "exit" /\ exit_code # 0) =>
         /\ wifi_state # "inited"
         /\ server_socket # "open"

(* --------------------------------- C11 --------------------------------- *)

\* the word w is among the arguments
Given(w) == \E i \in 1 .. Len(argv) : argv[i] = w

\* exactly one of -local and -udp is among the arguments
ExactlyOneMode == Given("-local") # Given("-udp")

\* the socket domain of the selected mode
DomainOfMode == IF local_mode = 1 THEN "AF_UNIX" ELSE "AF_INET"

C11_Selection ==
    /\ (pc \notin {"args", "exit", "killed"} \/ wifi_state # "uninit" \/ server_socket # "none") =>
         /\ ExactlyOneMode
         /\ udp_mode + local_mode = 1
         /\ (local_mode = 1) = Given("-local")
    /\ socket_domain # "none" => socket_domain = DomainOfMode
    /\ (server_socket # "none") = (socket_domain # "none")
    /\ bound => server_socket \in {"open", "closed"}

C11_Step ==
    /\ pc # "args" => (udp_mode' = udp_mode /\ local_mode' = local_mode)
    /\ socket_domain # "none" => socket_domain' = socket_domain
    /\ bound => bound'

\* C11 as stated: Wi-Fi initialization and socket creation are reached only
\* with exactly one of -local and -udp given, a run with both or neither
\* returns non-zero, one socket of the selected mode is created and bound,
\* and the mode never changes.
C11_ExactlyOneModeOrNonZero ==
    /\ C11_Selection
    /\ (pc = "exit" /\ ~ExactlyOneMode) => exit_code # 0

\* C11 amended: as stated, except that a run with both or neither of the
\* flags returns before Wi-Fi initialization with code 0 when -h was among
\* the arguments, and non-zero otherwise.
C11_ExactlyOneMode ==
    /\ [](C11_Selection)
    /\ []((pc = "exit" /\ ~ExactlyOneMode) =>
            /\ wifi_state = "uninit"
            /\ server_socket = "none"
            /\ exit_code = IF Given("-h") THEN 0 ELSE 1)
    /\ [][C11_Step]_vars

C11_Witness ==
    /\ argv = << "en0", "-local" >>
    /\ socket_domain = "AF_UNIX"
    /\ bound
    /\ pc = "recv"

(* --------------------------------- C12 --------------------------------- *)

C12_Inv ==
    /\ sent # << >> => (recv_len > 0 /\ client_addr \in Peers)
    /\ \A i \in 1 .. Len(sent) : sent[i].to = client_addr

C12_Step ==
    /\ client_addr' # client_addr => (pc = "recv" /\ recv_len' > 0)
    /\ (pc = "recv" /\ pc' # pc /\ recv_len' <= 0) => pc' = "loop"
    /\ sent' # sent => (sent' = << >> \/ (recv_len > 0 /\ client_addr' = client_addr))

\* C12: every response is sent to client_addr as the recvfrom of the same
\* iteration filled it, that recvfrom having returned a datagram; client_addr
\* changes only there, and an iteration whose recvfrom failed sends nothing.
C12_ReplyToSender == [](C12_Inv) /\ [][C12_Step]_vars

C12_Witness ==
    /\ Handled(VANILLA_PIPE_CC_SYNC)
    /\ client_addr = "peerB"
    /\ Len(sent) = 1
    /\ sent[1].to = "peerB"

(* --------------------------------- C13 --------------------------------- *)

\* C13: once the loop has been entered, the running flag is cleared and the
\* loop is left only after a termination signal or a received QUIT frame; a
\* malformed (truncated) or unrecognized frame, a failed receive, a failed
\* send and a failed Wi-Fi call never do either.
C13_OnlySignalOrQuitEndsLoop ==
    /\ (bound /\ teardown # << >>) => running = 0
    /\ (bound /\ running = 0) =>
         \/ handler_log > 0
         \/ (quit_seen /\ control_code = VANILLA_PIPE_CC_QUIT /\ recv_len = SizeofCmd)

(* --------------------------------- C14 --------------------------------- *)

\* positions inside the event loop
LoopPcs == CasePcs \cup { "loop", "recv", "dispatch", "default" }

\* C14: after a signal delivered anywhere in the event loop, at most one
\* recvfrom returns (and the frame it returned is handled), and main then
\* leaves the loop, closes the socket, cleans up Wi-Fi and returns 0.
C14_SignalShutsDown ==
    /\ [](recvs_since_signal <= 1)
    /\ ((handler_log > 0 /\ pc \in LoopPcs) ~>
          (pc = "exit" /\ exit_code = 0 /\ server_socket = "closed"
             /\ wifi_state = "cleaned" /\ teardown = FullTeardown))

C14_Witness ==
    /\ pc = "exit"
    /\ exit_code = 0
    /\ ~quit_seen
    /\ recvs_since_signal = 1
    /\ control_code = VANILLA_PIPE_CC_CONNECT
    /\ Len(sent) = 1

(* --------------------------------- C15 --------------------------------- *)

\* everything but the flag and main's position
all_but_running == << argv, handlers_installed, handler_log, udp_mode,
                      local_mode, wireless_interface, wifi_state,
                      cleanup_calls, ready_written, server_socket, bound,
                      recv_len, control_code, client_addr, result, sent,
                      wifi_calls, quit_seen, teardown, exit_code,
                      socket_domain, recvs_since_signal >>

\* C15: a run of the signal handler (a step that leaves main where it is)
\* sets the shutdown flag and does nothing else: it writes no log line and
\* changes no other state.
C15_HandlerOnlySetsFlag ==
    [][(handlers_installed /\ pc' = pc) =>
          (running' = 0 /\ all_but_running' = all_but_running)]_vars

(* --------------------------------- C16 --------------------------------- *)

\* C16: READY is written at most once, only with Wi-Fi initialized, and has
\* been written exactly once wherever main is past line 100 (so before any
\* recvfrom); a run that ends without Wi-Fi initialized never wrote it.
C16_ReadyOnceAfterInit ==
    /\ ready_written <= 1
    /\ ready_written = 1 => wifi_state # "uninit"
    /\ (pc \in LoopPcs \cup {"socket", "bind", "setsockopt", "close", "cleanup", "shutdown"})
          => ready_written = 1
    /\ (pc \in {"args", "signal", "wifi_init", "ready"}) => ready_written = 0
    /\ (pc \in {"exit", "killed"}) => (ready_written = 1) = (wifi_state # "uninit")

C16_Witness ==
    /\ pc = "recv"
    /\ recv_len > 0
    /\ ready_written = 1
    /\ wifi_state = "inited"

(* --------------------------------- C17 --------------------------------- *)

C17_Inv ==
    /\ Len(sent) <= 1
    /\ Len(wifi_calls) <= 1
    /\ sent # << >> =>
         \/ /\ control_code = VANILLA_PIPE_CC_SYNC
            /\ sent[1].bytes[1] = VANILLA_PIPE_CC_STATUS
            /\ Len(wifi_calls) = 1
         \/ /\ control_code = VANILLA_PIPE_CC_CONNECT
            /\ sent[1].bytes = << VANILLA_PIPE_CC_BIND_ACK >>

C17_Step ==
    /\ (pc' = "recv" /\ pc # "recv") => pc = "loop"
    /\ (pc \in CasePcs \cup {"dispatch", "default"}) =>
         (control_code' = control_code /\ client_addr' = client_addr /\ recv_len' = recv_len)
    /\ (sent' # sent /\ sent' # << >>) => (pc \in CasePcs /\ Len(sent') = Len(sent) + 1)
    /\ (wifi_calls' # wifi_calls /\ wifi_calls' # << >>) => pc \in CasePcs
    /\ (pc \in CasePcs /\ pc' # pc) => pc' \in CasePcs \cup {"loop"}

\* C17: frames are handled one at a time in the order received: an iteration
\* sends at most one response, which answers the frame that iteration
\* received, and makes at most one Wi-Fi call, all inside the frame's case;
\* the next recvfrom starts only from the loop test, after the case is left,
\* and no frame is received while one is being handled.
C17_OneFrameAtATime == [](C17_Inv) /\ [][C17_Step]_vars

C17_Witness ==
    /\ pc = "recv"
    /\ recv_len > 0
    /\ control_code = VANILLA_PIPE_CC_SYNC
    /\ Len(sent) = 1
    /\ Len(wifi_calls) = 1

(* --------------------------------- C18 --------------------------------- *)

\* C18: whenever READY has been written the socket has been created and
\* bound, and no run writes READY and then returns non-zero.
C18_ReadyImpliesBound ==
    /\ ready_written > 0 => (bound /\ server_socket \in {"open", "closed"})
    /\ (pc = "exit" /\ ready_written > 0) => exit_code = 0

(* --------------------------------- C19 --------------------------------- *)

C19_Inv ==
    /\ \A i \in 1 .. Len(wifi_calls) :
         \/ wifi_calls[i].op = "wifi_scan_for_wiiu" /\ control_code = VANILLA_PIPE_CC_SYNC
         \/ wifi_calls[i].op = "wifi_disassociate" /\ control_code = VANILLA_PIPE_CC_UNBIND
    /\ \A cc \in ControlCodeInputs :
         Handled(cc) =>
            [ i \in 1 .. Len(wifi_calls) |-> wifi_calls[i].op ] =
               IF cc = VANILLA_PIPE_CC_SYNC THEN << "wifi_scan_for_wiiu" >>
               ELSE IF cc = VANILLA_PIPE_CC_UNBIND THEN << "wifi_disassociate" >>
               ELSE << >>

C19_Step ==
    /\ (pc \in {"dispatch", "sync", "sync_send", "connect", "unbind", "default"} /\ pc' # pc)
          => running' = running
    /\ (pc = "quit" /\ pc' # pc) => (running' = 0 /\ wifi_calls' = wifi_calls)

C20_Inv ==
    /\ cleanup_calls <= 1
    /\ (cleanup_calls = 1) = (wifi_state = "cleaned")
    /\ pc = "exit" => cleanup_calls = (IF wifi_state = "uninit" THEN 0 ELSE 1)
    /\ pc = "exit" => wifi_state # "inited"
    /\ (pc \in {"sync", "unbind"} \/ wifi_calls # << >>) => wifi_state # "uninit"
    /\ (pc \in {"sync", "unbind"}) => wifi_state = "inited"

C20_Step ==
    /\ (wifi_calls' # wifi_calls /\ wifi_calls' # << >>) =>
         (wifi_state = "inited" /\ wifi_state' = "inited")
    /\ cleanup_calls' # cleanup_calls =>
         (wifi_state = "inited" /\ cleanup_calls' = cleanup_calls + 1)
    /\ wifi_state = "cleaned" => wifi_state' = "cleaned"

\* C20: wifi_cleanup has been called exactly once when main returns after a
\* successful wifi_init (normal shutdown and bind failure alike) and is never
\* called otherwise; scan and disassociate are called only between a
\* successful wifi_init and wifi_cleanup.
C20_CleanupOnceIffInit == [](C20_Inv) /\ [][C20_Step]_vars

C20_Witness ==
    /\ pc = "exit"
    /\ exit_code = 1
    /\ ~bound
    /\ cleanup_calls = 1
    /\ wifi_state = "cleaned"

====
